---- MODULE Spec2Model ----
(***************************************************************************)
(* AIS dry bulk vessel scraper (src/analyze_ais_data.py): the collector's  *)
(* profile store, classifier, observation buffer and CSV/JSON merge.       *)
(*                                                                         *)
(* Encoding of Python values:                                              *)
(*   - an optional value (None, or a missing dict key read with .get) is   *)
(*     the empty set, a present value v is {v};                            *)
(*   - a str is a sequence of one-character strings, so that strip() and   *)
(*     str() are computed, except identifiers (mmsi), which are the        *)
(*     strings str() produces from the small identifier domain;            *)
(*   - a dict of dimensions is a function from a subset of                 *)
(*     {"A","B","C","D"} to integers;                                      *)
(*   - factors 0.75 .. 0.90 are percentages: for integer offsets           *)
(*     int(length * width * 12 * f) is the floor of the exact product      *)
(*     (the product is an integer or at least 1/20 away from one, far      *)
(*     more than the rounding error of one double multiplication).         *)
(***************************************************************************)
EXTENDS Integers, Sequences, FiniteSets, TLC

VARIABLES
    vessel_database,   \* self.vessel_database: mmsi -> profile
    collected_data,    \* self.collected_data: the session buffer
    is_running,        \* self.is_running
    dwt_min,           \* self.dwt_min
    dwt_max,           \* self.dwt_max
    csv_file,          \* ais_data/dry_bulk_vessels.csv
    vessel_db_file,    \* ais_data/vessel_database.json
    pc,                \* where run() / main() stands
    exc,               \* an exception is propagating out of the inner try
    now,               \* datetime.now(timezone.utc), in clock ticks
    merges,            \* save_data() calls of this process that wrote or kept the CSV
    call,              \* the last call observed: method, arguments, result
    merging,           \* collector processes inside save_data side by side
    origin_main,       \* ais_data/ in the commit at the tip of origin/main
    archives           \* ais_data/archives/ in the working tree

vars == <<vessel_database, collected_data, is_running, dwt_min, dwt_max,
          csv_file, vessel_db_file, pc, exc, now, merges, call, merging,
          origin_main, archives>>

\* what the collector's own steps never write
outside == <<call, merging, origin_main, archives>>

---------------------------------------------------------------------------
(* Python values *)

None == {}

Some(v) == {v}

Val(o) == CHOOSE v \in o : TRUE

\* bool(x) of an optional integer: None and 0 are falsy
TruthyInt(o) == o # {} /\ Val(o) # 0

\* bool(x) of an optional str or dict: None, '' and {} are falsy
TruthySeq(o) == o # {} /\ DOMAIN Val(o) # {}

\* a JSON scalar of an identifier field: an int n, a str (n = 0 is '', n > 0 a
\* non-numeric text) or null
JInt(n) == [t |-> "int", n |-> n]

JStr(n) == [t |-> "str", n |-> n]

JNull == [t |-> "null", n |-> 0]

\* bool(x) of an optional JSON scalar: None, 0 and '' are falsy
TruthyJ(o) == o # {} /\ Val(o).t # "null" /\ Val(o).n # 0

Digits == <<"1", "2", "3", "4", "5", "6", "7", "8", "9">>

\* str(x)
PyStr(j) ==
    CASE j.t = "int" -> IF j.n = 0 THEN "0" ELSE Digits[j.n]
      [] j.t = "str" -> IF j.n = 0 THEN "" ELSE "X"
      [] OTHER -> "None"

\* dict.get(k, default) of a key that may be missing
GetOr(o, default) == IF o = {} THEN default ELSE Val(o)

Max(a, b) == IF a >= b THEN a ELSE b

Min(a, b) == IF a <= b THEN a ELSE b

Abs(a) == IF a < 0 THEN -a ELSE a

Unknown == <<"U", "n", "k", "n", "o", "w", "n">>

IsSpace(c) == c = " "

RECURSIVE LStrip(_)
LStrip(s) == IF s # <<>> /\ IsSpace(Head(s)) THEN LStrip(Tail(s)) ELSE s

RECURSIVE RStrip(_)
RStrip(s) ==
    IF s # <<>> /\ IsSpace(s[Len(s)]) THEN RStrip(SubSeq(s, 1, Len(s) - 1)) ELSE s

\* str.strip()
Strip(s) == RStrip(LStrip(s))

---------------------------------------------------------------------------
(* estimate_dwt_from_dimensions *)

\* dimensions.get(k, 0)
DimGet(dimensions, k) == IF k \in DOMAIN dimensions THEN dimensions[k] ELSE 0

\* dwt_factor, in hundredths
dwt_factor_bad(length) ==
    IF length <= 150 THEN 75
    ELSE IF length <= 200 THEN 80
    ELSE IF length <= 250 THEN 85
    ELSE 90

dwt_factor(length) ==
    IF length < 150 THEN 75
    ELSE IF length < 200 THEN 80
    ELSE IF length < 250 THEN 85
    ELSE 90

DwtFloor == 10000

DwtCeiling == 400000

estimate_dwt_from_dimensions_zero_ok(dimensions) ==
    LET length == DimGet(dimensions, "A") + DimGet(dimensions, "B")
        width == DimGet(dimensions, "C") + DimGet(dimensions, "D")
    IN  IF length < 0 \/ width < 0
        THEN None
        ELSE LET estimated_dwt == (length * width * 12 * dwt_factor(length)) \div 100
             IN  Some(Max(DwtFloor, Min(DwtCeiling, estimated_dwt)))

estimate_dwt_from_dimensions(dimensions) ==
    LET length == DimGet(dimensions, "A") + DimGet(dimensions, "B")
        width == DimGet(dimensions, "C") + DimGet(dimensions, "D")
    IN  IF length <= 0 \/ width <= 0
        THEN None
        ELSE LET estimated_dwt == (length * width * 12 * dwt_factor(length)) \div 100
             IN  Some(Max(DwtFloor, Min(DwtCeiling, estimated_dwt)))

---------------------------------------------------------------------------
(* is_target_vessel *)

dry_bulk_types == {70, 71, 72, 73, 74, 79}

is_target_vessel_no_type_check(vessel_data) ==
    LET estimated_dwt == vessel_data.estimated_dwt
    IN  IF TruthyInt(estimated_dwt)
        THEN dwt_min <= Val(estimated_dwt) /\ Val(estimated_dwt) <= dwt_max
        ELSE TRUE

is_target_vessel_open_interval(vessel_data) ==
    LET ship_type == vessel_data.ship_type
        estimated_dwt == vessel_data.estimated_dwt
    IN  IF TruthyInt(ship_type) /\ Val(ship_type) \notin dry_bulk_types
        THEN FALSE
        ELSE IF TruthyInt(estimated_dwt)
        THEN dwt_min < Val(estimated_dwt) /\ Val(estimated_dwt) < dwt_max
        ELSE TRUE

is_target_vessel_strict(vessel_data) ==
    LET ship_type == vessel_data.ship_type
        estimated_dwt == vessel_data.estimated_dwt
    IN  IF TruthyInt(ship_type) /\ Val(ship_type) \notin dry_bulk_types
        THEN FALSE
        ELSE IF TruthyInt(estimated_dwt)
        THEN dwt_min <= Val(estimated_dwt) /\ Val(estimated_dwt) <= dwt_max
        ELSE FALSE

is_target_vessel_dimension_fallback(vessel_data) ==
    LET ship_type == vessel_data.ship_type
        estimated_dwt == vessel_data.estimated_dwt
        fallback == IF TruthySeq(vessel_data.dimensions)
                    THEN estimate_dwt_from_dimensions(Val(vessel_data.dimensions))
                    ELSE None
    IN  IF TruthyInt(ship_type) /\ Val(ship_type) \notin dry_bulk_types
        THEN FALSE
        ELSE IF TruthyInt(estimated_dwt)
        THEN dwt_min <= Val(estimated_dwt) /\ Val(estimated_dwt) <= dwt_max
        ELSE IF TruthyInt(fallback)
        THEN dwt_min <= Val(fallback) /\ Val(fallback) <= dwt_max
        ELSE TRUE

is_target_vessel_accept_all(vessel_data) == TRUE

is_target_vessel(vessel_data) ==
    LET ship_type == vessel_data.ship_type
        estimated_dwt == vessel_data.estimated_dwt
    IN  IF TruthyInt(ship_type) /\ Val(ship_type) \notin dry_bulk_types
        THEN FALSE
        ELSE IF TruthyInt(estimated_dwt)
        THEN dwt_min <= Val(estimated_dwt) /\ Val(estimated_dwt) <= dwt_max
        ELSE TRUE

---------------------------------------------------------------------------
(* process_static_data *)

\* str(data.get('UserID') or metadata.get('MMSI', ''))
ResolveMmsi(data, metadata) ==
    PyStr(IF TruthyJ(data.UserID) THEN Val(data.UserID)
          ELSE GetOr(metadata.MMSI, JStr(0)))

\* vessel = self.vessel_database.get(mmsi, {})
EmptyVessel(mmsi) ==
    [mmsi |-> mmsi, name |-> None, call_sign |-> None, imo_number |-> None,
     ship_type |-> None, dimensions |-> None, destination |-> None,
     max_draught |-> None, last_static_update |-> None, estimated_dwt |-> None]

\* (incoming or '').strip() or vessel.get(field, 'Unknown')
TextUpdateErasing(incoming, stored) ==
    Strip(IF TruthySeq(incoming) THEN Val(incoming) ELSE <<>>)

TextUpdate(incoming, stored) ==
    LET text == Strip(IF TruthySeq(incoming) THEN Val(incoming) ELSE <<>>)
    IN  IF text # <<>> THEN text ELSE GetOr(stored, Unknown)

\* incoming or vessel.get(field)
NumUpdate(incoming, stored) == IF TruthyInt(incoming) THEN incoming ELSE stored

\* the vessel.update({...}) of process_static_data
StaticUpdate(vessel, static_data, timestamp) ==
    [vessel EXCEPT
        !.name = Some(TextUpdate(static_data.Name, vessel.name)),
        !.call_sign = Some(TextUpdate(static_data.CallSign, vessel.call_sign)),
        !.imo_number = NumUpdate(static_data.ImoNumber, vessel.imo_number),
        !.ship_type = NumUpdate(static_data.Type, vessel.ship_type),
        !.dimensions = Some(IF TruthySeq(static_data.Dimension)
                            THEN Val(static_data.Dimension)
                            ELSE GetOr(vessel.dimensions, <<>>)),
        !.destination = Some(TextUpdate(static_data.Destination, vessel.destination)),
        !.max_draught = NumUpdate(static_data.MaximumStaticDraught, vessel.max_draught),
        !.last_static_update = Some(timestamp)]

\* the profile process_static_data stores under mmsi
UpsertStaticEstimateOnce(vessel, static_data, timestamp) ==
    LET updated == StaticUpdate(vessel, static_data, timestamp)
        estimated_dwt == estimate_dwt_from_dimensions(Val(updated.dimensions))
    IN  IF vessel.estimated_dwt = None /\ TruthyInt(estimated_dwt)
        THEN [updated EXCEPT !.estimated_dwt = estimated_dwt]
        ELSE updated

UpsertStatic(vessel, static_data, timestamp) ==
    LET updated == StaticUpdate(vessel, static_data, timestamp)
        estimated_dwt == estimate_dwt_from_dimensions(Val(updated.dimensions))
    IN  IF DOMAIN Val(updated.dimensions) # {} /\ TruthyInt(estimated_dwt)
        THEN [updated EXCEPT !.estimated_dwt = estimated_dwt]
        ELSE updated

\* self.vessel_database[mmsi] = vessel
Put(database, mmsi, vessel) ==
    [m \in DOMAIN database \cup {mmsi} |-> IF m = mmsi THEN vessel ELSE database[m]]

---------------------------------------------------------------------------
(* process_position_report *)

\* the stub profile of an identifier first seen in a position report
StubVessel(mmsi, metadata) ==
    [EmptyVessel(mmsi) EXCEPT !.name = Some(GetOr(metadata.ShipName, Unknown))]

\* the record dict of process_position_report
Record(vessel, position_data, metadata, timestamp) ==
    [timestamp |-> timestamp,
     mmsi |-> vessel.mmsi,
     vessel_name |-> GetOr(vessel.name, GetOr(metadata.ShipName, Unknown)),
     latitude |-> position_data.Latitude,
     longitude |-> position_data.Longitude,
     speed_knots |-> GetOr(position_data.Sog, 0),
     course_degrees |-> GetOr(position_data.Cog, 0),
     heading_degrees |-> position_data.TrueHeading,
     navigation_status |-> position_data.NavigationalStatus,
     ship_type |-> vessel.ship_type,
     estimated_dwt |-> vessel.estimated_dwt,
     call_sign |-> GetOr(vessel.call_sign, Unknown),
     destination |-> GetOr(vessel.destination, Unknown),
     rate_of_turn |-> position_data.RateOfTurn,
     position_accuracy |-> GetOr(position_data.PositionAccuracy, FALSE),
     imo_number |-> vessel.imo_number,
     max_draught |-> vessel.max_draught]

\* the filter on invalid coordinates
InvalidCoordinatesLax(record) ==
    \/ record.latitude = None
    \/ record.longitude = None
    \/ Abs(Val(record.latitude)) > 180
    \/ Abs(Val(record.longitude)) > 180

InvalidCoordinates(record) ==
    \/ record.latitude = None
    \/ record.longitude = None
    \/ Abs(Val(record.latitude)) > 90
    \/ Abs(Val(record.longitude)) > 180

---------------------------------------------------------------------------
(* save_data: the CSV merge *)

AbsentFile == [exists |-> FALSE, readable |-> FALSE, rows |-> <<>>]

CorruptFile == [exists |-> TRUE, readable |-> FALSE, rows |-> <<>>]

\* new_df.to_csv(path, index=False)
FreshFile(rows) == [exists |-> TRUE, readable |-> TRUE, rows |-> rows]

\* merge_cols
KeyOf(row) == <<row.mmsi, row.timestamp, row.latitude, row.longitude>>

\* pd.read_csv parses a column of digit strings as int64
IsNumericStr(text) == text = "0" \/ \E i \in DOMAIN Digits : Digits[i] = text

\* the dtype read_csv gives the mmsi column of the existing log
MmsiDtype(rows) ==
    IF rows # <<>> /\ \A i \in DOMAIN rows : IsNumericStr(rows[i].mmsi)
    THEN "int64"
    ELSE "object"

\* DataFrame.merge raises ValueError on an object (str) key against an int64 key;
\* new_df's mmsi column always holds str
MergeRaises(new_rows, existing_rows) ==
    new_rows # <<>> /\ MmsiDtype(existing_rows) = "int64"

\* the rows of the existing log with the key of a new row
Matches(row, existing_rows) ==
    {j \in DOMAIN existing_rows : KeyOf(existing_rows[j]) = KeyOf(row)}

\* merged['_merge'] of the left merge: per new row, in order, one 'left_only'
\* when no existing row has its key, else one 'both' per existing row that has
MergeIndicatorAllNew(new_rows, existing_rows) ==
    [i \in DOMAIN new_rows |-> "left_only"]

RECURSIVE MergeIndicator(_, _)
MergeIndicator(new_rows, existing_rows) ==
    IF new_rows = <<>>
    THEN <<>>
    ELSE LET n == Cardinality(Matches(Head(new_rows), existing_rows))
         IN  (IF n = 0 THEN <<"left_only">> ELSE [k \in 1..n |-> "both"])
             \o MergeIndicator(Tail(new_rows), existing_rows)

RECURSIVE Select(_, _, _)
Select(rows, mask, i) ==
    IF i > Len(rows)
    THEN <<>>
    ELSE (IF mask[i] THEN <<rows[i]>> ELSE <<>>) \o Select(rows, mask, i + 1)

\* new_df[merged['_merge'] == 'left_only']: the boolean Series is reindexed to
\* new_df's index 0..n-1, so it is read by position even when merged is longer
TrulyNewKeepAll(new_rows, existing_rows) == new_rows

TrulyNew(new_rows, existing_rows) ==
    LET merged == MergeIndicator(new_rows, existing_rows)
    IN  Select(new_rows, [i \in DOMAIN new_rows |-> merged[i] = "left_only"], 1)

IoOutcomes == {"ok", "append_fail", "csv_fail", "db_fail"}

\* the CSV part of save_data under io: the file afterwards, and whether an
\* exception leaves save_data, and whether the warning of the except branch was
\* logged. A write that fails leaves the file as it was.
SaveCsvRaisesOnUnreadable(file, new_rows, io) ==
    IF file.exists /\ ~file.readable
    THEN [file |-> file, raised |-> TRUE, warned |-> FALSE]
    ELSE [file |-> FreshFile(new_rows), raised |-> io = "csv_fail", warned |-> FALSE]

SaveCsv(file, new_rows, io) ==
    LET write(warned) ==
            IF io = "csv_fail"
            THEN [file |-> file, raised |-> TRUE, warned |-> warned]
            ELSE [file |-> FreshFile(new_rows), raised |-> FALSE, warned |-> warned]
    IN  IF ~file.exists
        THEN write(FALSE)
        ELSE IF ~file.readable \/ MergeRaises(new_rows, file.rows)
        THEN write(TRUE)    \* except Exception: warning, "creating new"
        ELSE LET truly_new == TrulyNew(new_rows, file.rows)
             IN  IF Len(truly_new) > 0
                 THEN IF io \in {"append_fail", "csv_fail"}
                      THEN write(TRUE)    \* the failed append is caught too
                      ELSE [file |-> FreshFile(file.rows \o truly_new),
                            raised |-> FALSE, warned |-> FALSE]
                 ELSE [file |-> file, raised |-> FALSE, warned |-> FALSE]

AbsentDb == [exists |-> FALSE, readable |-> FALSE, vessels |-> {}]

\* json.dump(list(self.vessel_database.values()), f): the profiles without their
\* keys; the keys are distinct, so the order of the list decides nothing
FreshDb(database) ==
    [exists |-> TRUE, readable |-> TRUE,
     vessels |-> {database[mmsi] : mmsi \in DOMAIN database}]

\* save_data under io: both files afterwards, and whether it raised
save_data_always_writes(io) ==
    LET csv == SaveCsv(csv_file, collected_data, io)
    IN  IF csv.raised \/ io = "db_fail"
        THEN [csv |-> csv.file, db |-> vessel_db_file, raised |-> TRUE]
        ELSE [csv |-> csv.file, db |-> FreshDb(vessel_database), raised |-> FALSE]

save_data_snapshot_when_new(io) ==
    IF collected_data = <<>>
    THEN [csv |-> csv_file, db |-> vessel_db_file, raised |-> FALSE]
    ELSE LET csv == SaveCsv(csv_file, collected_data, io)
         IN  IF csv.raised \/ io = "db_fail"
             THEN [csv |-> csv.file, db |-> vessel_db_file, raised |-> TRUE]
             ELSE [csv |-> csv.file,
                   db |-> IF csv.file = csv_file
                          THEN vessel_db_file
                          ELSE FreshDb(vessel_database),
                   raised |-> FALSE]

save_data(io) ==
    IF collected_data = <<>>
    THEN [csv |-> csv_file, db |-> vessel_db_file, raised |-> FALSE]
    ELSE LET csv == SaveCsv(csv_file, collected_data, io)
         IN  IF csv.raised
             THEN [csv |-> csv.file, db |-> vessel_db_file, raised |-> TRUE]
             ELSE IF io = "db_fail"
             THEN [csv |-> csv.file, db |-> vessel_db_file, raised |-> TRUE]
             ELSE [csv |-> csv.file, db |-> FreshDb(vessel_database),
                   raised |-> FALSE]

\* load_existing_data: {str(v['mmsi']): v for v in data}, or {} when the file
\* is missing or json.load fails
load_existing_data_forgets(db) == <<>>

load_existing_data(db) ==
    IF db.exists /\ db.readable
    THEN [mmsi \in {v.mmsi : v \in db.vessels} |->
             CHOOSE v \in db.vessels : v.mmsi = mmsi]
    ELSE <<>>

\* ais_data/ of a commit that holds no data file yet
EmptyTree == [csv_file |-> AbsentFile, vessel_db_file |-> AbsentDb, archives |-> {}]

---------------------------------------------------------------------------
(* Bounds and the events of the model *)

\* the longest session buffer
MaxBuf == 2

\* the last clock tick
MaxClock == 1

NoCall == [fn |-> "none"]

Dims(a, b, c, d) == [k \in {"A", "B", "C", "D"} |->
                        CASE k = "A" -> a [] k = "B" -> b [] k = "C" -> c [] OTHER -> d]

\* ShipStaticData payloads
StaticMsg(user_id, name, type, dimension) ==
    [UserID |-> user_id, Name |-> name, CallSign |-> None, ImoNumber |-> None,
     Type |-> type, Dimension |-> dimension, Destination |-> None,
     MaximumStaticDraught |-> None]

\* PositionReport payloads
PositionMsg(user_id, latitude, longitude) ==
    [UserID |-> user_id, Latitude |-> latitude, Longitude |-> longitude,
     Sog |-> Some(12), Cog |-> None, TrueHeading |-> None,
     NavigationalStatus |-> None, RateOfTurn |-> None, PositionAccuracy |-> None]

UserIDs == {None, Some(JInt(1)), Some(JStr(1))}

Metas == {[MMSI |-> None, ShipName |-> None],
          [MMSI |-> Some(JInt(1)), ShipName |-> None]}

StaticMsgs ==
    {StaticMsg(u, None, Some(70), Some(Dims(100, 80, 15, 15))) : u \in UserIDs}

PositionMsgs ==
    {PositionMsg(u, lat, Some(20)) : u \in UserIDs, lat \in {None, Some(10), Some(95)}}

---------------------------------------------------------------------------
(* The collector process: __init__, run, main *)

\* AISDataCollector.__init__ of the first run, before any file is written
Init ==
    /\ csv_file \in {AbsentFile, CorruptFile}
    /\ vessel_db_file = AbsentDb
    /\ vessel_database = load_existing_data(vessel_db_file)
    /\ collected_data = <<>>
    /\ is_running = TRUE
    /\ dwt_min = 40000
    /\ dwt_max = 100000
    /\ pc = "start"
    /\ exc = FALSE
    /\ now = 0
    /\ merges = 0
    /\ call = NoCall
    /\ merging = <<>>
    /\ origin_main = EmptyTree
    /\ archives = {}

\* websockets.connect and the subscription succeed
Connect ==
    /\ pc = "start"
    /\ pc' = "loop"
    /\ UNCHANGED <<vessel_database, collected_data, is_running, dwt_min, dwt_max,
                   csv_file, vessel_db_file, exc, now, merges>>

\* websockets.connect or the subscription raises
ConnectFails ==
    /\ pc = "start"
    /\ pc' = "except"
    /\ exc' = TRUE
    /\ UNCHANGED <<vessel_database, collected_data, is_running, dwt_min, dwt_max,
                   csv_file, vessel_db_file, now, merges>>

\* time passes between two messages
Tick ==
    /\ pc = "loop"
    /\ now < MaxClock
    /\ now' = now + 1
    /\ UNCHANGED <<vessel_database, collected_data, is_running, dwt_min, dwt_max,
                   csv_file, vessel_db_file, pc, exc, merges>>

signal_handler ==
    /\ pc = "loop"
    /\ is_running
    /\ is_running' = FALSE
    /\ UNCHANGED <<vessel_database, collected_data, dwt_min, dwt_max,
                   csv_file, vessel_db_file, pc, exc, now, merges>>

process_static_data(static_data, metadata) ==
    /\ pc = "loop"
    /\ is_running
    /\ LET mmsi == ResolveMmsi(static_data, metadata)
           vessel == IF mmsi \in DOMAIN vessel_database
                     THEN vessel_database[mmsi]
                     ELSE EmptyVessel(mmsi)
       IN  vessel_database' =
               IF mmsi = ""
               THEN vessel_database
               ELSE Put(vessel_database, mmsi, UpsertStatic(vessel, static_data, now))
    /\ UNCHANGED <<collected_data, is_running, dwt_min, dwt_max,
                   csv_file, vessel_db_file, pc, exc, now, merges>>

process_position_report(position_data, metadata) ==
    /\ pc = "loop"
    /\ is_running
    /\ Len(collected_data) < MaxBuf
    /\ LET mmsi == ResolveMmsi(position_data, metadata)
           database == IF mmsi \in DOMAIN vessel_database
                       THEN vessel_database
                       ELSE Put(vessel_database, mmsi, StubVessel(mmsi, metadata))
       IN  IF mmsi = ""
           THEN UNCHANGED <<vessel_database, collected_data>>
           ELSE LET vessel == database[mmsi]
                    record == Record(vessel, position_data, metadata, now)
                IN  /\ vessel_database' = database
                    /\ collected_data' =
                           IF ~is_target_vessel(vessel) \/ InvalidCoordinates(record)
                           THEN collected_data
                           ELSE Append(collected_data, record)
    /\ UNCHANGED <<is_running, dwt_min, dwt_max,
                   csv_file, vessel_db_file, pc, exc, now, merges>>

\* the receive loop ends: duration over, is_running cleared or connection closed
\* (error = FALSE), or an exception leaves the loop (error = TRUE)
LoopEnds(error) ==
    /\ pc = "loop"
    /\ pc' = "finally"
    /\ exc' = error
    /\ UNCHANGED <<vessel_database, collected_data, is_running, dwt_min, dwt_max,
                   csv_file, vessel_db_file, now, merges>>

\* the CSV step of save_data ran to its end with a buffer to merge
Merged(io) == collected_data # <<>> /\ ~SaveCsv(csv_file, collected_data, io).raised

\* finally: await self.save_data()
SaveFinally(io) ==
    /\ pc = "finally"
    /\ LET result == save_data(io)
       IN  /\ csv_file' = result.csv
           /\ vessel_db_file' = result.db
           /\ exc' = (exc \/ result.raised)
           /\ pc' = IF exc \/ result.raised THEN "except" ELSE "done"
    /\ merges' = IF Merged(io) THEN merges + 1 ELSE merges
    /\ UNCHANGED <<vessel_database, collected_data, is_running, dwt_min, dwt_max, now>>

\* except Exception: await self.save_data(); raise
SaveExcept(io) ==
    /\ pc = "except"
    /\ LET result == save_data(io)
       IN  /\ csv_file' = result.csv
           /\ vessel_db_file' = result.db
    /\ pc' = "failed"
    /\ merges' = IF Merged(io) THEN merges + 1 ELSE merges
    /\ UNCHANGED <<vessel_database, collected_data, is_running, dwt_min, dwt_max,
                   exc, now>>

\* the next scheduled run: a new process and a new AISDataCollector, later than
\* everything the previous run stamped
Restart ==
    /\ pc \in {"done", "failed"}
    /\ now < MaxClock
    /\ now' = now + 1
    /\ vessel_database' = load_existing_data(vessel_db_file)
    /\ collected_data' = <<>>
    /\ is_running' = TRUE
    /\ pc' = "start"
    /\ exc' = FALSE
    /\ merges' = 0
    /\ UNCHANGED <<dwt_min, dwt_max, csv_file, vessel_db_file>>

Next ==
    \/ Connect /\ UNCHANGED outside
    \/ ConnectFails /\ UNCHANGED outside
    \/ Tick /\ UNCHANGED outside
    \/ signal_handler /\ UNCHANGED outside
    \/ \E static_data \in StaticMsgs, metadata \in Metas :
          process_static_data(static_data, metadata) /\ UNCHANGED outside
    \/ \E position_data \in PositionMsgs, metadata \in Metas :
          process_position_report(position_data, metadata) /\ UNCHANGED outside
    \/ \E error \in BOOLEAN : LoopEnds(error) /\ UNCHANGED outside
    \/ \E io \in IoOutcomes : SaveFinally(io) /\ UNCHANGED outside
    \/ \E io \in IoOutcomes : SaveExcept(io) /\ UNCHANGED outside
    \/ Restart /\ UNCHANGED outside

Spec == Init /\ [][Next]_vars

---------------------------------------------------------------------------
(* The merge: claims C1 - C3 *)

IsPrefix(a, b) == Len(a) <= Len(b) /\ SubSeq(b, 1, Len(a)) = a

\* a save_data call whose writes all succeed
MergeStep == SaveFinally("ok") \/ SaveExcept("ok")

\* C1: a merge run while the observation log exists and is readable leaves the
\* log's content before the merge as an exact prefix of its content after it
C1_AppendOnly ==
    [][(MergeStep /\ csv_file.exists /\ csv_file.readable)
          => (csv_file'.exists /\ csv_file'.readable
              /\ IsPrefix(csv_file.rows, csv_file'.rows))]_vars

\* C2: when save_data runs a second time with the same buffer, reading back the
\* log its first run wrote, the log keeps its rows and its row count: the second
\* merge appends nothing
C2_MergeIdempotent ==
    [][((\E io \in IoOutcomes : SaveExcept(io)) /\ merges >= 1)
          => (csv_file'.rows = csv_file.rows
              /\ Len(csv_file'.rows) = Len(csv_file.rows))]_vars

\* the second save_data call of a run went through its CSV step, after the first
\* had written a non-empty buffer
C2_Witness == pc = "failed" /\ merges = 2 /\ Len(csv_file.rows) >= 1

\* the keys of the rows of the log
ExistingKeys(rows) == {KeyOf(rows[j]) : j \in DOMAIN rows}

\* C3: against a readable log a merge appends exactly the buffered observations
\* whose dedup key no existing row has, in arrival order; when the log does not
\* exist, the buffered observations become its content
C3_MergeResult ==
    [][(MergeStep /\ collected_data # <<>>)
          => /\ ~csv_file.exists => csv_file'.rows = collected_data
             /\ (csv_file.exists /\ csv_file.readable) =>
                    csv_file'.rows =
                        csv_file.rows \o
                        SelectSeq(collected_data,
                                  LAMBDA r : KeyOf(r) \notin ExistingKeys(csv_file.rows))]_vars

---------------------------------------------------------------------------
(* estimate_dwt_from_dimensions called on its own *)

EstimateInputs ==
    {Dims(a, b, c, d) :
        a \in {0, 1, 100, 149, 150, 511}, b \in {0, 49, 50, 80, 100, 511},
        c \in {0, 5, 15, 63}, d \in {0, 15, 63}}
    \cup {<<>>, [k \in {"A", "C"} |-> 200], [k \in {"B", "D"} |-> 30]}
    \cup {Dims(-5, 3, 10, 10), Dims(100, 80, -15, 15), Dims(-100, 0, -20, 0),
          [k \in {"A"} |-> 200], [k \in {"C", "D"} |-> 15]}

InitEstimate ==
    /\ csv_file = AbsentFile
    /\ vessel_db_file = AbsentDb
    /\ vessel_database = <<>>
    /\ collected_data = <<>>
    /\ is_running = TRUE
    /\ dwt_min = 40000
    /\ dwt_max = 100000
    /\ pc = "call"
    /\ exc = FALSE
    /\ now = 0
    /\ merges = 0
    /\ call \in {[fn |-> "estimate_dwt_from_dimensions", arg |-> d,
                  done |-> FALSE, ret |-> None] : d \in EstimateInputs}
    /\ merging = <<>>
    /\ origin_main = EmptyTree
    /\ archives = {}

CallEstimate ==
    /\ call.fn = "estimate_dwt_from_dimensions"
    /\ ~call.done
    /\ call' = [call EXCEPT !.done = TRUE,
                            !.ret = estimate_dwt_from_dimensions(call.arg)]
    /\ UNCHANGED <<vessel_database, collected_data, is_running, dwt_min, dwt_max,
                   csv_file, vessel_db_file, pc, exc, now, merges, merging,
                   origin_main, archives>>

NextEstimate == CallEstimate

SpecEstimate == InitEstimate /\ [][NextEstimate]_vars

LengthOf(dimensions) == DimGet(dimensions, "A") + DimGet(dimensions, "B")

WidthOf(dimensions) == DimGet(dimensions, "C") + DimGet(dimensions, "D")

\* clamp(floor(length * width * 12 * f), 10000, 400000), f by length bracket
ExpectedDwt(length, width) ==
    LET volume == length * width * 12
        raw == CASE length < 150 -> (volume * 3) \div 4
                 [] length >= 150 /\ length < 200 -> (volume * 4) \div 5
                 [] length >= 200 /\ length < 250 -> (volume * 17) \div 20
                 [] length >= 250 -> (volume * 9) \div 10
    IN  IF raw < 10000 THEN 10000 ELSE IF raw > 400000 THEN 400000 ELSE raw

\* C10: for dimensions of positive length A+B and width C+D the estimator
\* returns clamp(floor(length * width * 12 * f), 10000, 400000) with f = 0.75,
\* 0.80, 0.85, 0.90 by length bracket (< 150, < 200, < 250, >= 250), a value in
\* [10000, 400000]; length 180 and width 30 give 51840
C10_EstimatorValue ==
    (call.fn = "estimate_dwt_from_dimensions" /\ call.done
     /\ LengthOf(call.arg) > 0 /\ WidthOf(call.arg) > 0)
        => /\ call.ret = Some(ExpectedDwt(LengthOf(call.arg), WidthOf(call.arg)))
           /\ \A e \in call.ret : 10000 <= e /\ e <= 400000
           /\ (LengthOf(call.arg) = 180 /\ WidthOf(call.arg) = 30) => call.ret = {51840}

\* Scenario A has been computed
C10_Witness ==
    /\ call.fn = "estimate_dwt_from_dimensions"
    /\ call.done
    /\ LengthOf(call.arg) = 180
    /\ WidthOf(call.arg) = 30
    /\ call.ret = {51840}

---------------------------------------------------------------------------
(* is_target_vessel called on its own *)

ClassifyInputs ==
    {[EmptyVessel("1") EXCEPT !.ship_type = t, !.estimated_dwt = c, !.dimensions = d] :
        t \in {None, Some(0), Some(70), Some(79), Some(80)},
        c \in {None, Some(10000), Some(39999), Some(40000), Some(51840),
               Some(60000), Some(100000), Some(100001), Some(400000)},
        d \in {None, Some(<<>>), Some(Dims(0, 0, 0, 0)),
               Some(Dims(100, 80, 15, 15)), Some(Dims(60, 40, 10, 10))}}

\* (DWT_MIN, DWT_MAX) of main
Configs == {<<40000, 100000>>, <<50000, 60000>>}

InitClassify ==
    /\ csv_file = AbsentFile
    /\ vessel_db_file = AbsentDb
    /\ vessel_database = <<>>
    /\ collected_data = <<>>
    /\ is_running = TRUE
    /\ \E config \in Configs : dwt_min = config[1] /\ dwt_max = config[2]
    /\ pc = "call"
    /\ exc = FALSE
    /\ now = 0
    /\ merges = 0
    /\ call \in {[fn |-> "is_target_vessel", arg |-> v, done |-> FALSE, ret |-> FALSE] :
                    v \in ClassifyInputs}
    /\ merging = <<>>
    /\ origin_main = EmptyTree
    /\ archives = {}

CallIsTargetVessel ==
    /\ call.fn = "is_target_vessel"
    /\ ~call.done
    /\ call' = [call EXCEPT !.done = TRUE, !.ret = is_target_vessel(call.arg)]
    /\ UNCHANGED <<vessel_database, collected_data, is_running, dwt_min, dwt_max,
                   csv_file, vessel_db_file, pc, exc, now, merges, merging,
                   origin_main, archives>>

NextClassify == CallIsTargetVessel

SpecClassify == InitClassify /\ [][NextClassify]_vars

Classified == call.fn = "is_target_vessel" /\ call.done

\* the ship-type is known (AIS type 0 is "not available") and not in the allow-set
TypeRejected(vessel) ==
    vessel.ship_type # None /\ Val(vessel.ship_type) # 0
    /\ Val(vessel.ship_type) \notin {70, 71, 72, 73, 74, 79}

CapacityKnown(vessel) == vessel.estimated_dwt # None /\ Val(vessel.estimated_dwt) # 0

InRange(capacity) == dwt_min <= capacity /\ capacity <= dwt_max

\* C6: a profile whose ship-type is known and not in the allow-set is rejected,
\* whatever its estimated capacity or dimensions
C6_TypeRejection == (Classified /\ TypeRejected(call.arg)) => call.ret = FALSE

\* a tanker (type 80) of in-range capacity and dimensions has been rejected
C6_Witness ==
    /\ Classified
    /\ call.arg.ship_type = Some(80)
    /\ call.arg.estimated_dwt = Some(51840)
    /\ call.arg.dimensions = Some(Dims(100, 80, 15, 15))
    /\ call.ret = FALSE

\* C7: a profile not rejected by type whose estimated capacity c is known is
\* accepted iff dwt_min <= c <= dwt_max, both bounds included
C7_CapacityRange ==
    (Classified /\ ~TypeRejected(call.arg) /\ CapacityKnown(call.arg))
        => (call.ret <=> InRange(Val(call.arg.estimated_dwt)))

\* a profile whose capacity is the upper end of the interval has been accepted
C7_Witness ==
    /\ Classified
    /\ ~TypeRejected(call.arg)
    /\ call.arg.estimated_dwt = Some(dwt_max)
    /\ call.ret = TRUE

\* the estimate the size estimator gives the profile's dimensions, if any
DimensionEstimate(vessel) ==
    IF vessel.dimensions = None
    THEN None
    ELSE estimate_dwt_from_dimensions(Val(vessel.dimensions))

\* C8 as stated: with the capacity unknown and dimensions that yield an estimate
\* e, the classifier accepts iff dwt_min <= e <= dwt_max
C8_DimensionFallback ==
    (Classified /\ ~TypeRejected(call.arg) /\ ~CapacityKnown(call.arg)
     /\ DimensionEstimate(call.arg) # None)
        => (call.ret <=> InRange(Val(DimensionEstimate(call.arg))))

\* C8 amended: is_target_vessel never reads the dimensions; a profile not
\* rejected by type whose estimated capacity is unknown is accepted, also when
\* its dimensions yield an estimate outside [dwt_min, dwt_max]
C8_UnknownCapacityAccepted ==
    (Classified /\ ~TypeRejected(call.arg) /\ ~CapacityKnown(call.arg))
        => call.ret = TRUE

\* a profile with no capacity and dimensions estimated outside the range has
\* been accepted
C8_Witness ==
    /\ Classified
    /\ ~TypeRejected(call.arg)
    /\ ~CapacityKnown(call.arg)
    /\ DimensionEstimate(call.arg) # None
    /\ ~InRange(Val(DimensionEstimate(call.arg)))
    /\ call.ret = TRUE

---------------------------------------------------------------------------
(* One session of static-data events, each observed in call *)

FullStatic ==
    [UserID |-> Some(JInt(1)), Name |-> Some(<<"A">>), CallSign |-> Some(<<"C">>),
     ImoNumber |-> Some(9), Type |-> Some(70),
     Dimension |-> Some(Dims(100, 80, 15, 15)), Destination |-> Some(<<"D">>),
     MaximumStaticDraught |-> Some(12)]

EmptyStatic ==
    [UserID |-> Some(JInt(1)), Name |-> None, CallSign |-> None, ImoNumber |-> None,
     Type |-> None, Dimension |-> None, Destination |-> None,
     MaximumStaticDraught |-> None]

StaticFields ==
    {"Name", "CallSign", "ImoNumber", "Type", "Dimension", "Destination",
     "MaximumStaticDraught"}

FieldValues(field) ==
    CASE field = "Name" ->
            {None, Some(<<>>), Some(<<" ">>), Some(<<" ", "B", " ">>)}
      [] field = "CallSign" -> {None, Some(<<" ", " ">>), Some(<<"C">>)}
      [] field = "Destination" -> {None, Some(<<>>), Some(<<"D", " ">>)}
      [] field = "ImoNumber" -> {None, Some(0), Some(9)}
      [] field = "Type" -> {None, Some(0), Some(70)}
      [] field = "Dimension" ->
            {None, Some(<<>>), Some(Dims(0, 0, 0, 0)), Some(Dims(100, 80, 15, 15)),
             Some(Dims(60, 40, 10, 10))}
      [] OTHER -> {None, Some(0), Some(12)}

\* every payload that differs from the full or from the empty one in one field
RichStaticMsgs ==
    UNION {{[base EXCEPT ![field] = value] : value \in FieldValues(field)} :
              base \in {FullStatic, EmptyStatic}, field \in StaticFields}

NoMeta == [MMSI |-> None, ShipName |-> None]

InitStatic == Init /\ csv_file = AbsentFile

ObserveStatic(static_data, metadata) ==
    /\ call' = [fn |-> "process_static_data", static_data |-> static_data,
                metadata |-> metadata]
    /\ UNCHANGED <<merging, origin_main, archives>>

NextStatic ==
    \/ Connect /\ UNCHANGED outside
    \/ Tick /\ UNCHANGED outside
    \/ \E static_data \in RichStaticMsgs :
          process_static_data(static_data, NoMeta) /\ ObserveStatic(static_data, NoMeta)

SpecStatic == InitStatic /\ [][NextStatic]_vars

\* the step is the static-data event observed in call'
StaticStep ==
    /\ call'.fn = "process_static_data"
    /\ process_static_data(call'.static_data, call'.metadata)

NonDefaultText(stored) == stored # None /\ Val(stored) # Unknown

EmptyText(incoming) ==
    incoming = None \/ \A k \in DOMAIN Val(incoming) : Val(incoming)[k] = " "

EmptyNumber(incoming) == incoming = None \/ Val(incoming) = 0

EmptyDimensions(incoming) == incoming = None \/ Val(incoming) = <<>>

\* what a static-data event with payload static_data may not erase of old
Kept(old, static_data, new) ==
    /\ (NonDefaultText(old.name) /\ EmptyText(static_data.Name))
          => new.name = old.name
    /\ (NonDefaultText(old.call_sign) /\ EmptyText(static_data.CallSign))
          => new.call_sign = old.call_sign
    /\ (NonDefaultText(old.destination) /\ EmptyText(static_data.Destination))
          => new.destination = old.destination
    /\ (old.imo_number # None /\ EmptyNumber(static_data.ImoNumber))
          => new.imo_number = old.imo_number
    /\ (old.ship_type # None /\ EmptyNumber(static_data.Type))
          => new.ship_type = old.ship_type
    /\ (old.max_draught # None /\ EmptyNumber(static_data.MaximumStaticDraught))
          => new.max_draught = old.max_draught
    /\ (old.dimensions \notin {None, Some(<<>>)} /\ EmptyDimensions(static_data.Dimension))
          => new.dimensions = old.dimensions
    /\ (old.estimated_dwt # None /\ EmptyDimensions(static_data.Dimension))
          => new.estimated_dwt = old.estimated_dwt
    /\ old.estimated_dwt # None => new.estimated_dwt # None

\* C4: once a profile holds a non-default name, call sign, destination, IMO
\* number, ship-type, dimensions, max draught or estimated capacity, a static-data
\* event for it whose value for that field is absent or empty (empty or
\* whitespace string, zero, null, empty dimensions) leaves the field as stored
C4_PartialUpdatesNeverErase ==
    [][StaticStep =>
          LET mmsi == ResolveMmsi(call'.static_data, call'.metadata)
          IN  mmsi \in DOMAIN vessel_database
                  => /\ mmsi \in DOMAIN vessel_database'
                     /\ Kept(vessel_database[mmsi], call'.static_data,
                             vessel_database'[mmsi])]_vars

\* a profile holding all eight values has just taken an event with none of them
C4_Witness ==
    /\ call.fn = "process_static_data"
    /\ call.static_data = EmptyStatic
    /\ "1" \in DOMAIN vessel_database
    /\ LET vessel == vessel_database["1"]
       IN  /\ vessel.name = Some(<<"A">>)
           /\ vessel.call_sign = Some(<<"C">>)
           /\ vessel.destination = Some(<<"D">>)
           /\ vessel.imo_number = Some(9)
           /\ vessel.ship_type = Some(70)
           /\ vessel.max_draught = Some(12)
           /\ vessel.dimensions = Some(Dims(100, 80, 15, 15))
           /\ vessel.estimated_dwt = Some(51840)
           /\ vessel.last_static_update = Some(1)

---------------------------------------------------------------------------
(* One collection session: static data and position reports, then the save *)

\* static data of vessel 1: cargo or tanker type; a hull not measured,
\* bulker-sized or oversized
SessionStatics ==
    {StaticMsg(Some(JInt(1)), None, type, dimension) :
        type \in {None, Some(70), Some(80)},
        dimension \in {None, Some(Dims(0, 0, 0, 0)), Some(Dims(100, 80, 15, 15)),
                       Some(Dims(200, 100, 25, 25))}}

\* (latitude, longitude) pairs on both sides of every limit
SessionCoordinates ==
    {<<Some(95), Some(10)>>, <<None, Some(10)>>, <<Some(10), None>>,
     <<Some(-91), Some(10)>>, <<Some(90), Some(181)>>, <<Some(90), Some(-181)>>,
     <<Some(-90), Some(-180)>>, <<Some(90), Some(180)>>}

SessionPositions ==
    {PositionMsg(u, c[1], c[2]) :
        u \in {None, Some(JInt(1)), Some(JInt(2))}, c \in SessionCoordinates}

SessionMetas == {NoMeta, [MMSI |-> None, ShipName |-> Some(<<"B">>)]}

InitSession == Init /\ csv_file = AbsentFile

ObservePosition(position_data, metadata) ==
    /\ call' = [fn |-> "process_position_report", position_data |-> position_data,
                metadata |-> metadata]
    /\ UNCHANGED <<merging, origin_main, archives>>

NextSession ==
    \/ Connect /\ UNCHANGED outside
    \/ \E static_data \in SessionStatics :
          process_static_data(static_data, NoMeta) /\ UNCHANGED outside
    \/ \E position_data \in SessionPositions, metadata \in SessionMetas :
          /\ process_position_report(position_data, metadata)
          /\ ObservePosition(position_data, metadata)
    \/ LoopEnds(FALSE) /\ UNCHANGED outside
    \/ SaveFinally("ok") /\ UNCHANGED outside

SpecSession == InitSession /\ [][NextSession]_vars

\* the step is the position event observed in call'
PositionStep ==
    /\ call'.fn = "process_position_report"
    /\ process_position_report(call'.position_data, call'.metadata)

\* a coordinate pair that is present and inside the limits
GoodCoordinates(latitude, longitude) ==
    /\ latitude # None
    /\ longitude # None
    /\ -90 <= Val(latitude) /\ Val(latitude) <= 90
    /\ -180 <= Val(longitude) /\ Val(longitude) <= 180

\* C5: every observation in the session buffer and every row of the log has a
\* present latitude in [-90, 90] and a present longitude in [-180, 180], and a
\* position event with a missing or out-of-range coordinate leaves the buffer
\* as it was
C5_CoordinateInvariant ==
    /\ [](/\ \A i \in DOMAIN collected_data :
                GoodCoordinates(collected_data[i].latitude, collected_data[i].longitude)
          /\ \A i \in DOMAIN csv_file.rows :
                GoodCoordinates(csv_file.rows[i].latitude, csv_file.rows[i].longitude))
    /\ [][(PositionStep /\ ~GoodCoordinates(call'.position_data.Latitude,
                                             call'.position_data.Longitude))
             => collected_data' = collected_data]_vars

\* Scenario B: the first event of the session is a position report at (95, 10)
\* for an identifier never seen; the buffer is still empty
C5_Witness ==
    /\ call.fn = "process_position_report"
    /\ call.position_data.Latitude = Some(95)
    /\ call.position_data.Longitude = Some(10)
    /\ collected_data = <<>>
    /\ DOMAIN vessel_database = {"2"}
    /\ pc = "loop"

\* the profile has dimensions from which a capacity can be estimated
UsableDimensions(vessel) ==
    /\ vessel.dimensions # None
    /\ estimate_dwt_from_dimensions(Val(vessel.dimensions)) # None

\* the profile carries neither a capacity estimate nor usable dimensions
NoSizeData(vessel) == ~CapacityKnown(vessel) /\ ~UsableDimensions(vessel)

\* C9: every profile with no capacity estimate and no usable dimensions whose
\* ship-type is unknown or in the allow-set is accepted; and a position event
\* with valid coordinates for an identifier with no profile creates the stub
\* profile and appends exactly one observation, of that identifier
C9_NoFalseNegatives ==
    /\ [](\A mmsi \in DOMAIN vessel_database :
             (NoSizeData(vessel_database[mmsi]) /\ ~TypeRejected(vessel_database[mmsi]))
                => is_target_vessel(vessel_database[mmsi]))
    /\ [][LET mmsi == ResolveMmsi(call'.position_data, call'.metadata)
          IN  (/\ PositionStep
               /\ mmsi # ""
               /\ mmsi \notin DOMAIN vessel_database
               /\ GoodCoordinates(call'.position_data.Latitude,
                                  call'.position_data.Longitude))
                 => /\ mmsi \in DOMAIN vessel_database'
                    /\ vessel_database'[mmsi] = StubVessel(mmsi, call'.metadata)
                    /\ Len(collected_data') = Len(collected_data) + 1
                    /\ SubSeq(collected_data', 1, Len(collected_data)) = collected_data
                    /\ collected_data'[Len(collected_data')].mmsi = mmsi]_vars

\* a position report at (90, 180) for an identifier never seen has just been
\* buffered, beside a typed profile that still has no size data
C9_Witness ==
    /\ call.fn = "process_position_report"
    /\ call.position_data.UserID = Some(JInt(2))
    /\ call.position_data.Latitude = Some(90)
    /\ Len(collected_data) = 1
    /\ collected_data[1].mmsi = "2"
    /\ DOMAIN vessel_database = {"1", "2"}
    /\ vessel_database["1"].ship_type = Some(70)
    /\ NoSizeData(vessel_database["1"])
    /\ vessel_database["2"].last_static_update = None

---------------------------------------------------------------------------
(* The estimator on dimensions without a positive length and width: claim C11 *)

\* C11: for dimensions whose length A+B or width C+D is not positive, absent
\* offsets counting as 0, estimate_dwt_from_dimensions returns None
C11_EstimatorRejection ==
    (call.fn = "estimate_dwt_from_dimensions" /\ call.done
     /\ (LengthOf(call.arg) <= 0 \/ WidthOf(call.arg) <= 0))
        => call.ret = None

\* the estimator has returned None for dimensions that carry a length and no
\* width offsets
C11_Witness ==
    /\ call.fn = "estimate_dwt_from_dimensions"
    /\ call.done
    /\ DOMAIN call.arg = {"A"}
    /\ LengthOf(call.arg) = 200
    /\ WidthOf(call.arg) = 0
    /\ call.ret = None

---------------------------------------------------------------------------
(* Duplicates inside one buffer: claim C12 *)

\* the rows with the dedup key key
RowsWithKey(rows, key) == {i \in DOMAIN rows : KeyOf(rows[i]) = key}

\* C12: when the buffer holds two observations with one dedup key and the log
\* is absent or empty, a merge whose writes succeed leaves exactly one row with
\* that key in the log
C12_WithinBatchDedup ==
    [][(MergeStep /\ (~csv_file.exists \/ (csv_file.readable /\ csv_file.rows = <<>>)))
          => \A i, j \in DOMAIN collected_data :
                (i # j /\ KeyOf(collected_data[i]) = KeyOf(collected_data[j]))
                   => Cardinality(RowsWithKey(csv_file'.rows,
                                              KeyOf(collected_data[i]))) = 1]_vars

---------------------------------------------------------------------------
(* save_data and the two files: claims C13, C14 *)

\* some call of save_data, from the finally block or the exception handler
SaveStep == \E io \in IoOutcomes : SaveFinally(io) \/ SaveExcept(io)

\* C13: save_data run with an empty session buffer writes neither file: the
\* log and the profile snapshot stay as they were, whatever the in-memory
\* profile store holds
C13_EmptyBufferNoOp ==
    [][(SaveStep /\ collected_data = <<>>)
          => (csv_file' = csv_file /\ vessel_db_file' = vessel_db_file)]_vars

\* a session that saw static data and buffered nothing has ended: the profile
\* store holds a profile the snapshot does not
C13_Witness ==
    /\ pc = "done"
    /\ collected_data = <<>>
    /\ vessel_database # <<>>
    /\ load_existing_data(vessel_db_file) # vessel_database

---------------------------------------------------------------------------
(* Profiles across sessions: claim C15 *)

\* the identifiers of the profiles in the snapshot
SnapshotIds(db) == {v.mmsi : v \in db.vessels}

\* no step takes an identifier out of the snapshot
SnapshotGrows == [][SnapshotIds(vessel_db_file) \subseteq SnapshotIds(vessel_db_file')]_vars

---------------------------------------------------------------------------
(* The ends of a session: claim C16 *)

\* how many entries of rows are the observation row
Occurrences(rows, row) == Cardinality({j \in DOMAIN rows : rows[j] = row})

\* the log holds each buffered observation as often as the buffer does
BufferedOnceInLog ==
    \A i \in DOMAIN collected_data :
        Occurrences(csv_file.rows, collected_data[i])
            = Occurrences(collected_data, collected_data[i])

---------------------------------------------------------------------------
(* save_data called on its own, on a log and a buffer of either origin *)

\* an observation of a vessel known by a position report only
Observation(mmsi, latitude, timestamp) ==
    Record(StubVessel(mmsi, NoMeta),
           PositionMsg(None, Some(latitude), Some(20)), NoMeta, timestamp)

\* the sequences over rows of length lo .. hi
SeqsOf(rows, lo, hi) == UNION {[1..n -> rows] : n \in lo..hi}

\* rows an earlier run wrote, and observations of the running session
OldRows == {Observation(mmsi, 10, 0) : mmsi \in {"1", "X"}}

NewRows == {Observation(mmsi, latitude, 1) : mmsi \in {"1", "X"}, latitude \in {10, 11}}

\* the profile store of a session that loaded the profiles of loaded and then
\* buffered the observations of buffer
StoreOf(loaded, buffer) ==
    [mmsi \in loaded \cup {buffer[i].mmsi : i \in DOMAIN buffer} |->
        StubVessel(mmsi, NoMeta)]

\* the log is absent, unreadable, left by an earlier run, or written by the
\* first save_data call of this session
InitSave ==
    /\ collected_data \in SeqsOf(NewRows, 0, MaxBuf)
    /\ csv_file \in {AbsentFile, CorruptFile}
                    \cup {FreshFile(rows) : rows \in SeqsOf(OldRows, 1, 2)}
                    \cup {FreshFile(rows) : rows \in {collected_data} \ {<<>>}}
    /\ \E loaded \in {{}, {"1"}, {"2"}} :
          /\ vessel_db_file = IF loaded = {}
                              THEN AbsentDb
                              ELSE FreshDb(StoreOf(loaded, <<>>))
          /\ vessel_database = StoreOf(loaded, collected_data)
    /\ is_running = TRUE
    /\ dwt_min = 40000
    /\ dwt_max = 100000
    /\ pc = "call"
    /\ exc = FALSE
    /\ now = 1
    /\ merges = 0
    /\ call = NoCall
    /\ merging = <<>>
    /\ origin_main = EmptyTree
    /\ archives = {}

\* await self.save_data(), with the files it found kept in call
CallSaveData(io) ==
    /\ pc = "call"
    /\ pc' = "returned"
    /\ LET result == save_data(io)
       IN  /\ csv_file' = result.csv
           /\ vessel_db_file' = result.db
           /\ call' = [fn |-> "save_data", io |-> io, csv_file |-> csv_file,
                       vessel_db_file |-> vessel_db_file, raised |-> result.raised,
                       warned |-> collected_data # <<>>
                                  /\ SaveCsv(csv_file, collected_data, io).warned]
    /\ UNCHANGED <<vessel_database, collected_data, is_running, dwt_min, dwt_max,
                   exc, now, merges, merging,
                   origin_main, archives>>

NextSave == \E io \in IoOutcomes : CallSaveData(io)

SpecSave == InitSave /\ [][NextSave]_vars

\* C17: when the log exists and cannot be read, a save_data call with a
\* non-empty buffer whose writes succeed does not raise: it logs the warning,
\* leaves the buffer as the whole content of the log, as it does when the log
\* is absent, and writes the profile store to the snapshot
C17_CorruptPriorState ==
    (/\ call.fn = "save_data"
     /\ call.io = "ok"
     /\ collected_data # <<>>
     /\ call.csv_file.exists
     /\ ~call.csv_file.readable)
        => /\ ~call.raised
           /\ call.warned
           /\ csv_file = FreshFile(collected_data)
           /\ csv_file = SaveCsv(AbsentFile, collected_data, "ok").file
           /\ vessel_db_file = FreshDb(vessel_database)

\* Scenario D: save_data found an unreadable log and no snapshot, and has
\* written a buffer of two observations and the profile store
C17_Witness ==
    /\ call.fn = "save_data"
    /\ call.io = "ok"
    /\ call.csv_file = CorruptFile
    /\ call.vessel_db_file = AbsentDb
    /\ call.warned
    /\ Len(collected_data) = 2
    /\ csv_file.readable
    /\ csv_file.rows = collected_data
    /\ vessel_db_file.exists

---------------------------------------------------------------------------
(* Writes that fail: claim C18 *)

\* save_data under io attempts the append of line 314
AppendAttempted ==
    /\ collected_data # <<>>
    /\ csv_file.exists
    /\ csv_file.readable
    /\ ~MergeRaises(collected_data, csv_file.rows)
    /\ Len(TrulyNew(collected_data, csv_file.rows)) > 0

\* save_data under io attempts a write that fails: any write of the log, the
\* append to the log, or the write of the snapshot
WriteFails(io) ==
    \/ io = "csv_fail" /\ collected_data # <<>>
          /\ (AppendAttempted \/ ~csv_file.exists \/ ~csv_file.readable
              \/ MergeRaises(collected_data, csv_file.rows))
    \/ io = "append_fail" /\ AppendAttempted
    \/ io = "db_fail" /\ collected_data # <<>>

\* C18: a save_data call in which a write of the log or of the snapshot fails
\* raises, and run raises to main: the step ends in the exception handler or
\* in the failed end of the session; a failed write of the log leaves the log as
\* it was; and no session in which save_data raised ends without an error
C18_WriteFailureSurfaced ==
    /\ [][\A io \in IoOutcomes :
             ((SaveFinally(io) \/ SaveExcept(io)) /\ WriteFails(io))
                => /\ save_data(io).raised
                   /\ pc' \in {"except", "failed"}
                   /\ io \in {"csv_fail", "append_fail"} => csv_file' = csv_file]_vars
    /\ [](pc = "done" => ~exc)

---------------------------------------------------------------------------
(* Two collector processes in save_data on one store: claim C19 *)

Mergers == {1, 2}

\* what the running sessions observed
SharedRows ==
    {Observation("1", 10, 1), Observation("X", 10, 1), Observation("X", 11, 1)}

\* what save_data decides to write after os.path.exists, read_csv and the merge
\* against the rows it read
PlanCsv(file, new_rows) ==
    IF ~file.exists
    THEN [kind |-> "create", rows |-> new_rows]
    ELSE IF ~file.readable \/ MergeRaises(new_rows, file.rows)
    THEN [kind |-> "overwrite", rows |-> new_rows]
    ELSE LET truly_new == TrulyNew(new_rows, file.rows)
         IN  IF Len(truly_new) > 0
             THEN [kind |-> "append", rows |-> truly_new]
             ELSE [kind |-> "none", rows |-> <<>>]

\* the write that was decided, on the file as it is by then: to_csv(path)
\* replaces the content, to_csv(path, mode='a', header=False) adds lines to it
ApplyPlanOverwriting(file, plan) ==
    IF plan.kind = "none" THEN file ELSE FreshFile(plan.rows)

ApplyPlan(file, plan) ==
    CASE plan.kind = "none" -> file
      [] plan.kind = "append" -> [file EXCEPT !.exists = TRUE, !.rows = @ \o plan.rows]
      [] OTHER -> FreshFile(plan.rows)

Merger(buffer, loaded) ==
    [pc |-> "start", collected_data |-> buffer,
     vessel_database |-> StoreOf(loaded, buffer),
     plan |-> [kind |-> "none", rows |-> <<>>]]

\* two sessions that loaded the same snapshot have filled their buffers and are
\* about to call save_data; call keeps the store they start from
InitConcurrent ==
    /\ csv_file \in {AbsentFile, CorruptFile}
                    \cup {FreshFile(rows) : rows \in SeqsOf(OldRows, 1, 2)}
    /\ \E loaded \in {{}, {"2"}} :
          /\ vessel_db_file = IF loaded = {}
                              THEN AbsentDb
                              ELSE FreshDb(StoreOf(loaded, <<>>))
          /\ merging \in [Mergers -> {Merger(buffer, loaded) :
                                        buffer \in SeqsOf(SharedRows, 0, MaxBuf)}]
    /\ call = [fn |-> "save_data", csv_file |-> csv_file,
               vessel_db_file |-> vessel_db_file, overlapped |-> FALSE]
    /\ origin_main = EmptyTree
    /\ archives = {}
    /\ vessel_database = <<>>
    /\ collected_data = <<>>
    /\ is_running = FALSE
    /\ dwt_min = 40000
    /\ dwt_max = 100000
    /\ pc = "finally"
    /\ exc = FALSE
    /\ now = 1
    /\ merges = 0

Active(p) == merging[p].pc \in {"write", "snapshot"}

\* save_data up to its decision: the empty-buffer return, or what to write
BeginSave(p) ==
    /\ merging[p].pc = "start"
    /\ merging' =
          [merging EXCEPT ![p] =
              IF merging[p].collected_data = <<>>
              THEN [@ EXCEPT !.pc = "done"]
              ELSE [@ EXCEPT !.pc = "write",
                             !.plan = PlanCsv(csv_file, merging[p].collected_data)]]
    /\ call' = [call EXCEPT !.overlapped =
                   @ \/ (merging[p].collected_data # <<>>
                         /\ \E q \in Mergers \ {p} : Active(q))]
    /\ UNCHANGED <<vessel_database, collected_data, is_running, dwt_min, dwt_max,
                   csv_file, vessel_db_file, pc, exc, now, merges>>
    /\ UNCHANGED <<origin_main, archives>>

\* the to_csv call of save_data
WriteCsv(p) ==
    /\ merging[p].pc = "write"
    /\ csv_file' = ApplyPlan(csv_file, merging[p].plan)
    /\ merging' = [merging EXCEPT ![p].pc = "snapshot"]
    /\ UNCHANGED <<vessel_database, collected_data, is_running, dwt_min, dwt_max,
                   vessel_db_file, pc, exc, now, merges, call>>
    /\ UNCHANGED <<origin_main, archives>>

\* the json.dump of save_data
WriteSnapshot(p) ==
    /\ merging[p].pc = "snapshot"
    /\ vessel_db_file' = FreshDb(merging[p].vessel_database)
    /\ merging' = [merging EXCEPT ![p].pc = "done"]
    /\ UNCHANGED <<vessel_database, collected_data, is_running, dwt_min, dwt_max,
                   csv_file, pc, exc, now, merges, call>>
    /\ UNCHANGED <<origin_main, archives>>

NextConcurrent ==
    \/ \E p \in Mergers : BeginSave(p)
    \/ \E p \in Mergers : WriteCsv(p)
    \/ \E p \in Mergers : WriteSnapshot(p)

SpecConcurrent == InitConcurrent /\ [][NextConcurrent]_vars

\* the store after one whole save_data call of a process on store
SavedBy(store, process) ==
    IF process.collected_data = <<>>
    THEN store
    ELSE [csv_file |-> SaveCsv(store.csv_file, process.collected_data, "ok").file,
          vessel_db_file |-> FreshDb(process.vessel_database)]

\* the stores the two calls leave when one runs after the other, in either order
SerialStores ==
    LET store == [csv_file |-> call.csv_file, vessel_db_file |-> call.vessel_db_file]
    IN  {SavedBy(SavedBy(store, merging[1]), merging[2]),
         SavedBy(SavedBy(store, merging[2]), merging[1])}

BothDone == \A p \in Mergers : merging[p].pc = "done"

FinalStore == [csv_file |-> csv_file, vessel_db_file |-> vessel_db_file]

\* C19: when at most one save_data call was at work on the store at a time, the
\* store the two calls leave is one that running them one after the other
\* leaves; C19_Witness is the store of two interleaved calls that no such order
\* leaves
C19_SerialMergesSafe ==
    (BothDone /\ ~call.overlapped) => FinalStore \in SerialStores

\* both calls read the log before either wrote it: the log holds one key twice
\* although no buffer did, and no serial order of the calls leaves this store
C19_Witness ==
    /\ BothDone
    /\ call.overlapped
    /\ FinalStore \notin SerialStores
    /\ \A p \in Mergers : \A i, j \in DOMAIN merging[p].collected_data :
          i # j => KeyOf(merging[p].collected_data[i]) # KeyOf(merging[p].collected_data[j])
    /\ call.csv_file.readable
    /\ \E i, j \in DOMAIN csv_file.rows :
          i # j /\ KeyOf(csv_file.rows[i]) = KeyOf(csv_file.rows[j])

---------------------------------------------------------------------------
(* The identifier of an event: claim C20 *)

\* UserID and MetaData.MMSI: missing, null, zero, empty, or an identifier
ResolveUserIDs == {None, Some(JNull), Some(JInt(0)), Some(JStr(0)), Some(JInt(1))}

ResolveMMSIs == {None, Some(JNull), Some(JInt(0)), Some(JStr(0)), Some(JInt(2))}

ResolveMetas == {[MMSI |-> m, ShipName |-> None] : m \in ResolveMMSIs}

NextResolve ==
    \/ Connect /\ UNCHANGED outside
    \/ \E user_id \in ResolveUserIDs, metadata \in ResolveMetas :
          LET static_data == StaticMsg(user_id, None, Some(70), None)
          IN  /\ process_static_data(static_data, metadata)
              /\ ObserveStatic(static_data, metadata)
    \/ \E user_id \in ResolveUserIDs, metadata \in ResolveMetas :
          LET position_data == PositionMsg(user_id, Some(10), Some(20))
          IN  /\ process_position_report(position_data, metadata)
              /\ ObservePosition(position_data, metadata)

SpecResolve == InitSession /\ [][NextResolve]_vars

\* the value is an identifier: not missing, null, zero or empty
Usable(value) == value # None /\ Val(value) \notin {JNull, JInt(0), JStr(0)}

\* the step handles the event in call'
EventStep == StaticStep \/ PositionStep

\* the payload of the event in call'
EventData ==
    IF call'.fn = "process_static_data" THEN call'.static_data ELSE call'.position_data

---------------------------------------------------------------------------
(* What the buffer holds: claim C21 *)

\* the observation carries a ship-type and a capacity the classifier accepts
AcceptedSnapshot(record) ==
    /\ ~TypeRejected(record)
    /\ CapacityKnown(record) => InRange(Val(record.estimated_dwt))

\* the step is a static-data event of the session
SessionStaticStep ==
    /\ pc = "loop"
    /\ vessel_database' # vessel_database \/ collected_data' # collected_data
    /\ \E static_data \in SessionStatics : process_static_data(static_data, NoMeta)

\* C21: every buffered observation carries a ship-type that is unknown or in
\* the allow-set and a capacity that is unknown or within [dwt_min, dwt_max]; a
\* position event whose profile the classifier rejects leaves the buffer as it
\* was; and a static-data event leaves the buffer as it was
C21_BufferClassification ==
    /\ [](\A i \in DOMAIN collected_data : AcceptedSnapshot(collected_data[i]))
    /\ [][LET mmsi == ResolveMmsi(call'.position_data, call'.metadata)
          IN  (PositionStep /\ mmsi # "" /\ ~is_target_vessel(vessel_database'[mmsi]))
                 => collected_data' = collected_data]_vars
    /\ [][SessionStaticStep => collected_data' = collected_data]_vars

\* vessel 1 was buffered as a cargo ship of 51840 t; static data then made it a
\* tanker, and its next position report, though valid, was not buffered
C21_Witness ==
    /\ pc = "loop"
    /\ call.fn = "process_position_report"
    /\ call.position_data.UserID = Some(JInt(1))
    /\ call.position_data.Latitude = Some(90)
    /\ Len(collected_data) = 1
    /\ collected_data[1].mmsi = "1"
    /\ collected_data[1].latitude = Some(-90)
    /\ collected_data[1].ship_type = Some(70)
    /\ collected_data[1].estimated_dwt = Some(51840)
    /\ vessel_database["1"].ship_type = Some(80)

---------------------------------------------------------------------------
(* Capacity and dimensions of a profile: claim C22 *)

\* C22: every profile whose stored dimensions yield an estimate e carries e as
\* its estimated capacity; so no profile has estimable dimensions and an unknown
\* capacity, and a stored capacity differs from the estimate of the stored
\* dimensions only when the estimator returns None for them
C22_CapacityMatchesDimensions ==
    \A mmsi \in DOMAIN vessel_database :
        LET vessel == vessel_database[mmsi]
            e == DimensionEstimate(vessel)
        IN  /\ e # None => vessel.estimated_dwt = e
            /\ e # None => CapacityKnown(vessel)
            /\ (CapacityKnown(vessel) /\ vessel.estimated_dwt # e) => e = None

\* vessel 1 was measured, estimated at 51840 t and then reported with all
\* offsets zero: the capacity stays beside dimensions that yield no estimate;
\* vessel 2 is known from a position report only
C22_Witness ==
    /\ DOMAIN vessel_database = {"1", "2"}
    /\ vessel_database["1"].dimensions = Some(Dims(0, 0, 0, 0))
    /\ vessel_database["1"].estimated_dwt = Some(51840)
    /\ vessel_database["2"].dimensions = None
    /\ Len(collected_data) = 2

---------------------------------------------------------------------------
(* The scheduled job: checkout, archive, scraper, commit and push *)

\* ais_data/ as the working tree holds it
WorkingTree == [csv_file |-> csv_file, vessel_db_file |-> vessel_db_file,
                archives |-> archives]

\* the position reports of the job's sessions
WorkflowPositions ==
    {PositionMsg(u, Some(10), Some(20)) : u \in {Some(JInt(1)), Some(JStr(1))}}

\* the first run of the job on a repository without data
InitWorkflow ==
    /\ origin_main = EmptyTree
    /\ archives = {}
    /\ csv_file = AbsentFile
    /\ vessel_db_file = AbsentDb
    /\ vessel_database = <<>>
    /\ collected_data = <<>>
    /\ is_running = TRUE
    /\ dwt_min = 40000
    /\ dwt_max = 100000
    /\ pc = "checkout"
    /\ exc = FALSE
    /\ now = 0
    /\ merges = 0
    /\ call = NoCall
    /\ merging = <<>>

\* actions/checkout on a fresh runner
Checkout ==
    /\ pc = "checkout"
    /\ csv_file' = origin_main.csv_file
    /\ vessel_db_file' = origin_main.vessel_db_file
    /\ archives' = origin_main.archives
    /\ pc' = "archive"
    /\ UNCHANGED <<vessel_database, collected_data, is_running, dwt_min, dwt_max,
                   exc, now, merges, call, merging, origin_main>>

\* "Archive old data if CSV gets too large": oversized says the file is over 50 MB
Archive(oversized) ==
    /\ pc = "archive"
    /\ oversized => csv_file.exists /\ csv_file.rows # <<>>
    /\ IF oversized
       THEN /\ archives' = archives \cup {[timestamp |-> now, rows |-> csv_file.rows]}
            /\ csv_file' = AbsentFile
       ELSE UNCHANGED <<archives, csv_file>>
    /\ pc' = "scraper"
    /\ UNCHANGED <<vessel_database, collected_data, is_running, dwt_min, dwt_max,
                   vessel_db_file, exc, now, merges, call, merging, origin_main>>

\* "Run AIS Scraper": main() builds the collector, which loads the snapshot
RunScraper ==
    /\ pc = "scraper"
    /\ vessel_database' = load_existing_data(vessel_db_file)
    /\ collected_data' = <<>>
    /\ is_running' = TRUE
    /\ exc' = FALSE
    /\ merges' = 0
    /\ pc' = "start"
    /\ UNCHANGED <<dwt_min, dwt_max, csv_file, vessel_db_file, now, call, merging,
                   origin_main, archives>>

\* the scraper exited with 1: the job stops before "Commit and push data"
JobFails ==
    /\ pc = "failed"
    /\ pc' = "end"
    /\ UNCHANGED <<vessel_database, collected_data, is_running, dwt_min, dwt_max,
                   csv_file, vessel_db_file, exc, now, merges, call, merging,
                   origin_main, archives>>

\* git fetch origin main; git reset --hard origin/main: every path the commit
\* holds gets the commit's content; paths the commit does not hold stay
ResetHard ==
    /\ pc = "done"
    /\ csv_file' = IF origin_main.csv_file.exists THEN origin_main.csv_file ELSE csv_file
    /\ vessel_db_file' = IF origin_main.vessel_db_file.exists
                         THEN origin_main.vessel_db_file
                         ELSE vessel_db_file
    /\ archives' = archives \cup origin_main.archives
    /\ pc' = "add"
    /\ UNCHANGED <<vessel_database, collected_data, is_running, dwt_min, dwt_max,
                   exc, now, merges, call, merging, origin_main>>

\* git add ais_data/; commit when git status shows a change; git push
CommitPush(pushed) ==
    /\ pc = "add"
    /\ origin_main' = IF pushed /\ WorkingTree # origin_main
                      THEN WorkingTree
                      ELSE origin_main
    /\ pc' = "end"
    /\ UNCHANGED <<vessel_database, collected_data, is_running, dwt_min, dwt_max,
                   csv_file, vessel_db_file, exc, now, merges, call, merging, archives>>

\* the next trigger, on a new runner
NextRun ==
    /\ pc = "end"
    /\ now < MaxClock
    /\ now' = now + 1
    /\ pc' = "checkout"
    /\ vessel_database' = <<>>
    /\ collected_data' = <<>>
    /\ csv_file' = AbsentFile
    /\ vessel_db_file' = AbsentDb
    /\ archives' = {}
    /\ UNCHANGED <<is_running, dwt_min, dwt_max, exc, merges, call, merging,
                   origin_main>>

NextWorkflow ==
    \/ Checkout
    \/ \E oversized \in BOOLEAN : Archive(oversized)
    \/ RunScraper
    \/ Connect /\ UNCHANGED outside
    \/ ConnectFails /\ UNCHANGED outside
    \/ \E position_data \in WorkflowPositions :
          process_position_report(position_data, NoMeta) /\ UNCHANGED outside
    \/ LoopEnds(FALSE) /\ UNCHANGED outside
    \/ SaveFinally("ok") /\ UNCHANGED outside
    \/ SaveExcept("ok") /\ UNCHANGED outside
    \/ JobFails
    \/ ResetHard
    \/ \E pushed \in BOOLEAN : CommitPush(pushed)
    \/ NextRun

SpecWorkflow == InitWorkflow /\ [][NextWorkflow]_vars

---------------------------------------------------------------------------
(* C23: the job's step ordering keeps the run's data *)

\* every observation the tree holds, in the log or in an archive of it
HistoricalPositions(tree) ==
    {tree.csv_file.rows[i] : i \in DOMAIN tree.csv_file.rows}
        \cup UNION {{a.rows[i] : i \in DOMAIN a.rows} : a \in tree.archives}

\* the step "git reset --hard origin/main" of the commit step
ResetStep == pc = "done" /\ pc' = "add"

\* the step in which a commit reaches origin/main
PushStep == pc = "add" /\ pc' = "end" /\ origin_main' # origin_main

\* the rows of the run that the committed log did not hold
RunNewRows ==
    LET keys == ExistingKeys(origin_main.csv_file.rows)
    IN  SelectSeq(collected_data, LAMBDA row : KeyOf(row) \notin keys)

\* C23: what the scraper step wrote into ais_data/ is still in the working
\* tree when it is staged (the reset before "git add" leaves the log and the
\* snapshot as the scraper left them), and a push makes the repository's log
\* the previously committed log followed by the run's new rows, or, when the
\* run archived the log, a log of the run's rows with every earlier
\* observation kept in the archives: no historical position is deleted.
C23_RunDataStagedAndKept ==
    /\ [][(ResetStep /\ collected_data # <<>>)
              => /\ csv_file' = csv_file
                 /\ vessel_db_file' = vessel_db_file]_vars
    /\ [][PushStep =>
            /\ HistoricalPositions(origin_main) \subseteq HistoricalPositions(origin_main')
            /\ \A i \in DOMAIN collected_data :
                   collected_data[i] \in HistoricalPositions(origin_main')
            /\ origin_main'.archives = origin_main.archives
                   => origin_main'.csv_file.rows
                          = origin_main.csv_file.rows \o RunNewRows]_vars

====
